---------------------------- MODULE Spec2Model ----------------------------
(***************************************************************************)
(* METAR-Vibe: the report parsing / classification / translation core of   *)
(* the server, the GET /api/weather handler around it, and the recent-     *)
(* searches logic of the web UI.                                           *)
(*                                                                         *)
(* A report is a sequence of one-character strings.  The regular           *)
(* expressions of the source are modelled character by character (word     *)
(* boundaries, greedy digit runs, leftmost match), so that what a report   *)
(* is built from (its groups) and what the code extracts from its text are *)
(* two different things the checks compare.                                *)
(***************************************************************************)
EXTENDS Integers, Sequences, FiniteSets, TLC

VARIABLES
    groups,      \* the groups the report under analysis was written from
    report,      \* the raw report text handed to the core (characters)
    ret,         \* core function name -> value it returned for `report`
    scans,       \* the extractors translateTaf has run on `report`
    hpc,         \* handler: position of the request in app.get("/api/weather")
    station,     \* handler: req.query.station
    metarFetch,  \* handler: state of the upstream METAR fetch
    tafFetch,    \* handler: state of the upstream TAF fetch
    responses,   \* handler: responses sent, in order
    coreCalls,   \* handler: calls of the core functions, in order
    uiStation,   \* UI: the station input
    loading,     \* UI: the loading flag
    recent,      \* UI: the recent-searches list (React state)
    stored,      \* UI: localStorage["metar-recent-searches"]
    inflight,    \* UI: the fetchWeather calls awaiting their response
    lastOk,      \* UI: the code of the last successful fetch
    uiError      \* UI: the error box

coreVars == <<groups, report, ret, scans>>
handlerVars == <<hpc, station, metarFetch, tafFetch, responses, coreCalls>>
uiVars == <<uiStation, loading, recent, stored, inflight, lastOk, uiError>>
vars == <<groups, report, ret, scans, hpc, station, metarFetch, tafFetch, responses,
          coreCalls, uiStation, loading, recent, stored, inflight, lastOk, uiError>>

(***************************************************************************)
(* Bounds of the model.                                                    *)
(***************************************************************************)
MaxGroups == 3

(***************************************************************************)
(* Characters and JavaScript regular-expression primitives.                *)
(***************************************************************************)
Digits == {"0", "1", "2", "3", "4", "5", "6", "7", "8", "9"}
UpperLetters == {"A", "B", "C", "D", "E", "F", "G", "H", "I", "J", "K", "L", "M",
                 "N", "O", "P", "Q", "R", "S", "T", "U", "V", "W", "X", "Y", "Z"}
LowerLetters == {"a", "b", "c", "d", "e", "f", "g", "h", "i", "j", "k", "l", "m",
                 "n", "o", "p", "q", "r", "s", "t", "u", "v", "w", "x", "y", "z"}
WordChars == Digits \cup UpperLetters \cup LowerLetters \cup {"_"}
SpaceChars == {" ", "\t", "\n", "\r"}

DigitChar == <<"0", "1", "2", "3", "4", "5", "6", "7", "8", "9">>
DigitVal(c) == CHOOSE v \in 0..9 : DigitChar[v + 1] = c

\* The character at position i, "" outside the string.
At(s, i) == IF i \in 1..Len(s) THEN s[i] ELSE ""
\* \b at position i: between s[i-1] and s[i].
Boundary(s, i) == (At(s, i - 1) \in WordChars) # (At(s, i) \in WordChars)
\* The literal w at position i.
Lit(s, i, w) == \A k \in 1..Len(w) : At(s, i + k - 1) = w[k]
\* End (exclusive) of the greedy run of class C starting at i.
RunEnd(s, i, C) ==
    CHOOSE j \in i..(Len(s) + 1) :
        /\ \A k \in i..(j - 1) : s[k] \in C
        /\ At(s, j) \notin C
DigitsEnd(s, i) == RunEnd(s, i, Digits)
Sub(s, i, j) == SubSeq(s, i, j - 1)
Min(S) == CHOOSE x \in S : \A y \in S : x <= y

RECURSIVE parseInt(_)
parseInt(ds) ==
    IF Len(ds) = 0 THEN 0
    ELSE 10 * parseInt(SubSeq(ds, 1, Len(ds) - 1)) + DigitVal(ds[Len(ds)])

(***************************************************************************)
(* JavaScript values: null, and numbers as fractions n/d in lowest terms.  *)
(* d = 0 stands for the two non-finite results of a division by zero:      *)
(* n = 1 Infinity, n = 0 NaN.                                              *)
(***************************************************************************)
Null == [t |-> "null", n |-> 0, d |-> 1]
RECURSIVE GCD(_, _)
GCD(a, b) == IF b = 0 THEN a ELSE GCD(b, a % b)
Num(n, d) ==
    IF d = 0 THEN [t |-> "num", n |-> IF n = 0 THEN 0 ELSE 1, d |-> 0]
    ELSE LET g == GCD(n, d) IN [t |-> "num", n |-> n \div g, d |-> d \div g]
Number(n) == [t |-> "num", n |-> n, d |-> 1]
IsFinite(x) == x.t = "num" /\ x.d # 0
\* a / b and a + b on non-negative numbers
Divide(a, b) == Num(a.n * b.d, a.d * b.n)
Plus(a, b) ==
    IF IsFinite(a) /\ IsFinite(b) THEN Num(a.n * b.d + b.n * a.d, a.d * b.d)
    ELSE IF IsFinite(a) THEN b ELSE a
\* a < b and a <= b: false as soon as NaN is involved
Less(a, b) ==
    IF IsFinite(a) /\ IsFinite(b) THEN a.n * b.d < b.n * a.d
    ELSE IsFinite(a) /\ b.n = 1
LessEq(a, b) ==
    IF IsFinite(a) /\ IsFinite(b) THEN a.n * b.d <= b.n * a.d
    ELSE (IsFinite(a) /\ b.n = 1) \/ (a.d = 0 /\ a.n = 1 /\ b.d = 0 /\ b.n = 1)

(***************************************************************************)
(* parseVisibility                                                         *)
(***************************************************************************)
\* /\bM\d+\/\d+SM\b/ : the positions where it matches
LessThanMatches(s) ==
    {i \in 1..Len(s) :
        /\ Boundary(s, i)
        /\ s[i] = "M"
        /\ LET j == DigitsEnd(s, i + 1) IN
             /\ j > i + 1
             /\ At(s, j) = "/"
             /\ LET k == DigitsEnd(s, j + 1) IN
                  /\ k > j + 1
                  /\ Lit(s, k, <<"S", "M">>)
                  /\ Boundary(s, k + 2)}

\* /\b(\d+)\/(\d+)SM\b/ anchored at i: its groups, or <<>> when it fails
FracAt(s, i) ==
    LET j == DigitsEnd(s, i)
        k == DigitsEnd(s, j + 1)
    IN IF /\ Boundary(s, i)
          /\ j > i
          /\ At(s, j) = "/"
          /\ k > j + 1
          /\ Lit(s, k, <<"S", "M">>)
          /\ Boundary(s, k + 2)
       THEN <<Sub(s, i, j), Sub(s, j + 1, k)>>
       ELSE <<>>
FracMatches(s) == {i \in 1..Len(s) : FracAt(s, i) # <<>>}

\* /\b(\d+)\s+(\d+)\/(\d+)SM\b/ anchored at i
MixedAt(s, i) ==
    LET j == DigitsEnd(s, i)
        k == RunEnd(s, j, SpaceChars)
        l == DigitsEnd(s, k)
        m == DigitsEnd(s, l + 1)
    IN IF /\ Boundary(s, i)
          /\ j > i
          /\ k > j
          /\ l > k
          /\ At(s, l) = "/"
          /\ m > l + 1
          /\ Lit(s, m, <<"S", "M">>)
          /\ Boundary(s, m + 2)
       THEN <<Sub(s, i, j), Sub(s, k, l), Sub(s, l + 1, m)>>
       ELSE <<>>
MixedMatches(s) == {i \in 1..Len(s) : MixedAt(s, i) # <<>>}

\* /\b(\d+)SM\b/ anchored at i
WholeAt(s, i) ==
    LET j == DigitsEnd(s, i)
    IN IF /\ Boundary(s, i)
          /\ j > i
          /\ Lit(s, j, <<"S", "M">>)
          /\ Boundary(s, j + 2)
       THEN <<Sub(s, i, j)>>
       ELSE <<>>
WholeMatches(s) == {i \in 1..Len(s) : WholeAt(s, i) # <<>>}

\* parseVisibility with the whole-number form tried before the others
parseVisibilityWholeFirst(metar) ==
    IF WholeMatches(metar) # {} THEN
        Number(parseInt(WholeAt(metar, Min(WholeMatches(metar)))[1]))
    ELSE IF LessThanMatches(metar) # {} THEN Number(0)
    ELSE IF FracMatches(metar) # {} THEN
        LET fracMatch == FracAt(metar, Min(FracMatches(metar)))
        IN Divide(Number(parseInt(fracMatch[1])), Number(parseInt(fracMatch[2])))
    ELSE Null

parseVisibility(metar) ==
    IF LessThanMatches(metar) # {} THEN Number(0)
    ELSE IF MixedMatches(metar) # {} THEN
        LET mixedMatch == MixedAt(metar, Min(MixedMatches(metar)))
        IN Plus(Number(parseInt(mixedMatch[1])),
                Divide(Number(parseInt(mixedMatch[2])), Number(parseInt(mixedMatch[3]))))
    ELSE IF FracMatches(metar) # {} THEN
        LET fracMatch == FracAt(metar, Min(FracMatches(metar)))
        IN Divide(Number(parseInt(fracMatch[1])), Number(parseInt(fracMatch[2])))
    ELSE IF WholeMatches(metar) # {} THEN
        LET wholeMatch == WholeAt(metar, Min(WholeMatches(metar)))
        IN Number(parseInt(wholeMatch[1]))
    ELSE Null

(***************************************************************************)
(* parseCeiling                                                            *)
(***************************************************************************)
\* /\b(BKN|OVC)(\d{3})\b/g anchored at i: the height digits, or <<>>
CeilingLayerAt(s, i) ==
    IF /\ Boundary(s, i)
       /\ (Lit(s, i, <<"B", "K", "N">>) \/ Lit(s, i, <<"O", "V", "C">>))
       /\ \A k \in 3..5 : At(s, i + k) \in Digits
       /\ Boundary(s, i + 6)
    THEN Sub(s, i + 3, i + 6)
    ELSE <<>>

\* The exec loop from lastIndex = from, lowestFt being the minimum so far.
RECURSIVE CeilingScan(_, _, _)
CeilingScan(s, from, lowestFt) ==
    LET starts == {i \in from..Len(s) : CeilingLayerAt(s, i) # <<>>}
    IN IF starts = {} THEN lowestFt
       ELSE LET i == Min(starts)
                ft == parseInt(CeilingLayerAt(s, i)) * 100
            IN CeilingScan(s, i + 6,
                           IF lowestFt = Null \/ ft < lowestFt.n THEN Number(ft)
                           ELSE lowestFt)

parseCeiling(metar) == CeilingScan(metar, 1, Null)

(***************************************************************************)
(* getFlightCategory                                                       *)
(***************************************************************************)
\* Classify with the MVFR rule using < instead of <=
ClassifyStrictMvfr(ceil, vis) ==
    IF (ceil # Null /\ Less(ceil, Number(500))) \/ (vis # Null /\ Less(vis, Number(1)))
    THEN "LIFR"
    ELSE IF (ceil # Null /\ Less(ceil, Number(1000))) \/ (vis # Null /\ Less(vis, Number(3)))
    THEN "IFR"
    ELSE IF (ceil # Null /\ Less(ceil, Number(3000))) \/ (vis # Null /\ Less(vis, Number(5)))
    THEN "MVFR"
    ELSE "VFR"

Classify(ceil, vis) ==
    IF (ceil # Null /\ Less(ceil, Number(500))) \/ (vis # Null /\ Less(vis, Number(1)))
    THEN "LIFR"
    ELSE IF (ceil # Null /\ Less(ceil, Number(1000))) \/ (vis # Null /\ Less(vis, Number(3)))
    THEN "IFR"
    ELSE IF (ceil # Null /\ LessEq(ceil, Number(3000))) \/ (vis # Null /\ LessEq(vis, Number(5)))
    THEN "MVFR"
    ELSE "VFR"

getFlightCategory(metarString) ==
    LET vis == parseVisibility(metarString)
        ceil == parseCeiling(metarString)
    IN [category |-> Classify(ceil, vis), visibilitySM |-> vis, ceilingFt |-> ceil]

(***************************************************************************)
(* Strings the translators build.  A phrase whose first letter gets        *)
(* upper-cased is kept as <<first character, rest>>.                       *)
(***************************************************************************)
RECURSIVE ToStr(_)
ToStr(cs) == IF Len(cs) = 0 THEN "" ELSE cs[1] \o ToStr(Tail(cs))
RECURSIVE Join(_, _)
Join(parts, sep) ==
    IF Len(parts) = 0 THEN ""
    ELSE IF Len(parts) = 1 THEN parts[1]
    ELSE parts[1] \o sep \o Join(Tail(parts), sep)
ToUpperCase == [a |-> "A", b |-> "B", c |-> "C", d |-> "D", e |-> "E", f |-> "F",
                g |-> "G", h |-> "H", i |-> "I", j |-> "J", k |-> "K", l |-> "L",
                m |-> "M", n |-> "N", o |-> "O", p |-> "P", q |-> "Q", r |-> "R",
                s |-> "S", t |-> "T", u |-> "U", v |-> "V", w |-> "W", x |-> "X",
                y |-> "Y", z |-> "Z"]
Text(p) == p[1] \o p[2]
\* w[0].toUpperCase() + w.slice(1)
Capitalize(p) == ToUpperCase[p[1]] \o p[2]
\* `${a}${b}` of a possibly empty prefix a and a phrase b
Prefixed(a, b) == IF a = <<>> THEN b ELSE <<a[1], a[2] \o Text(b)>>
Pad2(n) == IF n < 10 THEN "0" \o ToString(n) ELSE ToString(n)
Pad3(n) == IF n < 10 THEN "00" \o ToString(n) ELSE IF n < 100 THEN "0" \o ToString(n)
           ELSE ToString(n)
\* n.toLocaleString() for an integer below a million (en-US grouping)
ToLocaleString(n) ==
    IF n < 1000 THEN ToString(n) ELSE ToString(n \div 1000) \o "," \o Pad3(n % 1000)
\* x.toFixed(2) for a number x >= 0
ToFixed2(x) ==
    IF x.d = 0 THEN (IF x.n = 1 THEN "Infinity" ELSE "NaN")
    ELSE LET cents == (200 * x.n + x.d) \div (2 * x.d)
         IN ToString(cents \div 100) \o "." \o Pad2(cents % 100)

SKY_COVER == [FEW |-> <<"f", "ew clouds">>, SCT |-> <<"s", "cattered clouds">>,
              BKN |-> <<"b", "roken clouds">>, OVC |-> <<"o", "vercast">>]
wxCodes == [RA |-> <<"r", "ain">>, SN |-> <<"s", "now">>, DZ |-> <<"d", "rizzle">>,
            TS |-> <<"t", "hunderstorm">>, FG |-> <<"f", "og">>, BR |-> <<"m", "ist">>,
            HZ |-> <<"h", "aze">>, SQ |-> <<"s", "qualls">>, GR |-> <<"h", "ail">>,
            GS |-> <<"s", "now pellets">>, UP |-> <<"u", "nknown precipitation">>,
            FU |-> <<"s", "moke">>, SA |-> <<"s", "and">>, DU |-> <<"d", "ust">>]
wxIntensity == [i \in {"-", "+", "VC"} |->
                  CASE i = "-" -> <<"l", "ight ">>
                    [] i = "+" -> <<"h", "eavy ">>
                    [] i = "VC" -> <<"i", "n vicinity ">>]
WxModifiers == {"MI", "PR", "BC", "DR", "BL", "SH", "TS", "FZ"}

(***************************************************************************)
(* Wind: /\b(VRB|\d{3})(\d{2,3})(G(\d{2,3}))?KT\b/                         *)
(***************************************************************************)
\* The groups <<dir, speed, gust>> of the match anchored at i, or <<>>.
WindAt(s, i) ==
    LET e == DigitsEnd(s, i + 3)
        g == DigitsEnd(s, e + 1)
    IN IF /\ Boundary(s, i)
          /\ (Lit(s, i, <<"V", "R", "B">>) \/ \A k \in 0..2 : At(s, i + k) \in Digits)
          /\ e - (i + 3) \in {2, 3}
          /\ At(s, e) # "G"
          /\ Lit(s, e, <<"K", "T">>)
          /\ Boundary(s, e + 2)
       THEN <<Sub(s, i, i + 3), Sub(s, i + 3, e), <<>> >>
       ELSE IF /\ Boundary(s, i)
               /\ (Lit(s, i, <<"V", "R", "B">>) \/ \A k \in 0..2 : At(s, i + k) \in Digits)
               /\ e - (i + 3) \in {2, 3}
               /\ At(s, e) = "G"
               /\ g - (e + 1) \in {2, 3}
               /\ Lit(s, g, <<"K", "T">>)
               /\ Boundary(s, g + 2)
       THEN <<Sub(s, i, i + 3), Sub(s, i + 3, e), Sub(s, e + 1, g)>>
       ELSE <<>>
WindMatches(s) == {i \in 1..Len(s) : WindAt(s, i) # <<>>}

\* The wind sentence, with `label` for the non-calm sentence ("Wind", "Initial wind").
WindPart(s, label) ==
    IF WindMatches(s) = {} THEN <<>>
    ELSE LET windMatch == WindAt(s, Min(WindMatches(s)))
             dir == IF windMatch[1] = <<"V", "R", "B">> THEN "variable"
                    ELSE ToStr(windMatch[1]) \o "°"
             spd == parseInt(windMatch[2])
             gust == IF windMatch[3] # <<>>
                     THEN " gusting " \o ToString(parseInt(windMatch[3])) \o " knots"
                     ELSE ""
         IN << IF spd = 0 THEN "Winds calm."
               ELSE label \o " " \o dir \o " at " \o ToString(spd) \o " knots" \o gust \o "." >>

(***************************************************************************)
(* Visibility sentence                                                     *)
(***************************************************************************)
IsWholeNumber(x) == x.d = 1
VisPart(s) ==
    LET vis == parseVisibility(s)
    IN IF vis = Null THEN <<>>
       ELSE << "Visibility "
               \o (IF IsWholeNumber(vis) THEN ToString(vis.n) ELSE ToFixed2(vis))
               \o " statute mile" \o (IF vis = Number(1) THEN "" ELSE "s") \o "." >>

(***************************************************************************)
(* Weather phenomena:                                                      *)
(* /\b([-+]|VC)?(MI|PR|BC|DR|BL|SH|TS|FZ)?(RA|SN|...|TS)\b/g               *)
(***************************************************************************)
\* The two characters at j as a string, "" when there are not two.
Pair(s, j) == IF j >= 1 /\ j + 1 <= Len(s) THEN s[j] \o s[j + 1] ELSE ""
\* The groups <<intensity, modifier, code>> of the match anchored at i, or <<>>.
\* An intensity that is there is taken (no modifier or code starts with "-",
\* "+" or "VC"); a modifier is tried before the bare code ("TS" is both).
WxAt(s, i) ==
    LET int == IF At(s, i) \in {"-", "+"} THEN At(s, i)
               ELSE IF Pair(s, i) = "VC" THEN "VC"
               ELSE ""
        a == IF int = "" THEN 0 ELSE IF int = "VC" THEN 2 ELSE 1
    IN IF ~Boundary(s, i) THEN <<>>
       ELSE IF /\ Pair(s, i + a) \in WxModifiers
               /\ Pair(s, i + a + 2) \in DOMAIN wxCodes
               /\ Boundary(s, i + a + 4)
       THEN <<int, Pair(s, i + a), Pair(s, i + a + 2)>>
       ELSE IF Pair(s, i + a) \in DOMAIN wxCodes /\ Boundary(s, i + a + 2)
       THEN <<int, "", Pair(s, i + a)>>
       ELSE <<>>
WxLength(w) == (IF w[1] = "" THEN 0 ELSE IF w[1] = "VC" THEN 2 ELSE 1)
               + (IF w[2] = "" THEN 0 ELSE 2) + 2

\* The exec loop from lastIndex = from: the phrases pushed to wxFound.
RECURSIVE WxScan(_, _)
WxScan(s, from) ==
    LET starts == {i \in from..Len(s) : WxAt(s, i) # <<>>}
    IN IF starts = {} THEN <<>>
       ELSE LET i == Min(starts)
                wxMatch == WxAt(s, i)
                intensity == IF wxMatch[1] = "" THEN <<>> ELSE wxIntensity[wxMatch[1]]
                phenom == wxCodes[wxMatch[3]]
            IN <<Prefixed(intensity, phenom)>> \o WxScan(s, i + WxLength(wxMatch))

WxPart(s) ==
    LET wxFound == WxScan(s, 1)
    IN IF Len(wxFound) = 0 THEN <<>>
       ELSE << Join([i \in 1..Len(wxFound) |->
                        IF i = 1 THEN Capitalize(wxFound[i]) ELSE Text(wxFound[i])], ", ")
               \o "." >>

(***************************************************************************)
(* Sky conditions: /\b(FEW|SCT|BKN|OVC)(\d{3})(CB|TCU)?\b/                 *)
(***************************************************************************)
\* The groups <<cover, height, suffix>> of the match anchored at i, or <<>>.
SkyAt(s, i) ==
    LET cover == ToStr(Sub(s, i, i + 3))
        sfx == IF Lit(s, i + 6, <<"C", "B">>) /\ Boundary(s, i + 8) THEN "CB"
               ELSE IF Lit(s, i + 6, <<"T", "C", "U">>) /\ Boundary(s, i + 9) THEN "TCU"
               ELSE ""
    IN IF /\ Boundary(s, i)
          /\ i + 5 <= Len(s)
          /\ cover \in DOMAIN SKY_COVER
          /\ \A k \in 3..5 : s[i + k] \in Digits
          /\ (sfx # "" \/ Boundary(s, i + 6))
       THEN <<cover, Sub(s, i + 3, i + 6), sfx>>
       ELSE <<>>
SkyMatches(s, from) == {i \in from..Len(s) : SkyAt(s, i) # <<>>}

\* `${cover} at ${alt.toLocaleString()} feet${cb}`
LayerPhrase(skyMatch) ==
    LET cover == SKY_COVER[skyMatch[1]]
        alt == parseInt(skyMatch[2]) * 100
        cb == IF skyMatch[3] = "CB" THEN " with cumulonimbus"
              ELSE IF skyMatch[3] = "TCU" THEN " with towering cumulus"
              ELSE ""
    IN <<cover[1], cover[2] \o " at " \o ToLocaleString(alt) \o " feet" \o cb>>

\* The exec loop from lastIndex = from: the phrases pushed to layers.
RECURSIVE SkyScan(_, _)
SkyScan(s, from) ==
    IF SkyMatches(s, from) = {} THEN <<>>
    ELSE LET i == Min(SkyMatches(s, from))
             skyMatch == SkyAt(s, i)
         IN <<LayerPhrase(skyMatch)>>
            \o SkyScan(s, i + 6 + (IF skyMatch[3] = "CB" THEN 2
                                   ELSE IF skyMatch[3] = "TCU" THEN 3 ELSE 0))

\* /\b(CLR|SKC|CAVOK)\b/.test(s), for the codes in `codes`
HasClearCode(s, codes) ==
    \E i \in 1..Len(s) : \E c \in codes :
        Boundary(s, i) /\ Lit(s, i, c) /\ Boundary(s, i + Len(c))

MetarSkyLayers(s) ==
    SkyScan(s, 1)
    \o (IF HasClearCode(s, {<<"C", "L", "R">>, <<"S", "K", "C">>, <<"C", "A", "V", "O", "K">>})
        THEN << <<"s", "ky clear">> >> ELSE <<>>)

SkyPart(s) ==
    LET layers == MetarSkyLayers(s)
    IN IF Len(layers) = 0 THEN <<>>
       ELSE << Capitalize(layers[1])
               \o (IF Len(layers) > 1
                   THEN ", " \o Join([i \in 1..(Len(layers) - 1) |-> Text(layers[i + 1])], ", ")
                   ELSE "")
               \o "." >>

(***************************************************************************)
(* Temperature / dewpoint: /\b(M?\d{2})\/(M?\d{2})\b/                      *)
(***************************************************************************)
\* <<minus, digits, next position>> of M?\d{2} at i, or <<>>
SignedTwoAt(s, i) ==
    LET m == IF At(s, i) = "M" THEN 1 ELSE 0
    IN IF At(s, i + m) \in Digits /\ At(s, i + m + 1) \in Digits
       THEN <<m = 1, Sub(s, i + m, i + m + 2), i + m + 2>>
       ELSE <<>>
TempAt(s, i) ==
    LET a == SignedTwoAt(s, i)
        b == SignedTwoAt(s, a[3] + 1)
    IN IF /\ Boundary(s, i)
          /\ a # <<>>
          /\ At(s, a[3]) = "/"
          /\ b # <<>>
          /\ Boundary(s, b[3])
       THEN <<a, b>>
       ELSE <<>>
TempMatches(s) == {i \in 1..Len(s) : TempAt(s, i) # <<>>}
\* parse = (s) => s.startsWith("M") ? -parseInt(s.slice(1)) : parseInt(s)
Celsius(g) == IF g[1] THEN 0 - parseInt(g[2]) ELSE parseInt(g[2])
TempPart(s) ==
    IF TempMatches(s) = {} THEN <<>>
    ELSE LET tempMatch == TempAt(s, Min(TempMatches(s)))
         IN << "Temperature " \o ToString(Celsius(tempMatch[1])) \o "°C, dewpoint "
               \o ToString(Celsius(tempMatch[2])) \o "°C." >>

(***************************************************************************)
(* Altimeter: /\bA(\d{4})\b/                                               *)
(***************************************************************************)
AltAt(s, i) ==
    IF /\ Boundary(s, i)
       /\ At(s, i) = "A"
       /\ \A k \in 1..4 : At(s, i + k) \in Digits
       /\ Boundary(s, i + 5)
    THEN Sub(s, i + 1, i + 5)
    ELSE <<>>
AltMatches(s) == {i \in 1..Len(s) : AltAt(s, i) # <<>>}
AltPart(s) ==
    IF AltMatches(s) = {} THEN <<>>
    ELSE LET altMatch == AltAt(s, Min(AltMatches(s)))
         IN << "Altimeter " \o ToFixed2(Num(parseInt(altMatch), 100)) \o " inHg." >>

(***************************************************************************)
(* translateMetar                                                          *)
(***************************************************************************)
\* The sentences pushed with visibility before wind
MetarPartsVisFirst(s) ==
    VisPart(s) \o WindPart(s, "Wind") \o WxPart(s) \o SkyPart(s) \o TempPart(s) \o AltPart(s)

MetarParts(s) ==
    WindPart(s, "Wind") \o VisPart(s) \o WxPart(s) \o SkyPart(s) \o TempPart(s) \o AltPart(s)

translateMetar(metarString) ==
    LET parts == MetarParts(metarString)
    IN IF Len(parts) > 0 THEN Join(parts, " ") ELSE "Unable to translate METAR."

(***************************************************************************)
(* translateTaf                                                            *)
(***************************************************************************)
\* String.prototype.trim
RECURSIVE Trim(_)
Trim(s) ==
    IF Len(s) = 0 THEN s
    ELSE IF s[1] \in SpaceChars THEN Trim(Tail(s))
    ELSE IF s[Len(s)] \in SpaceChars THEN Trim(SubSeq(s, 1, Len(s) - 1))
    ELSE s

\* /\b(\d{2})(\d{2})\/(\d{2})(\d{2})\b/ anchored at i: its four groups, or <<>>
PeriodAt(s, i) ==
    IF /\ Boundary(s, i)
       /\ \A k \in 0..3 : At(s, i + k) \in Digits
       /\ At(s, i + 4) = "/"
       /\ \A k \in 5..8 : At(s, i + k) \in Digits
       /\ Boundary(s, i + 9)
    THEN <<Sub(s, i, i + 2), Sub(s, i + 2, i + 4), Sub(s, i + 5, i + 7), Sub(s, i + 7, i + 9)>>
    ELSE <<>>
PeriodMatches(s) == {i \in 1..Len(s) : PeriodAt(s, i) # <<>>}
PeriodPart(s) ==
    IF PeriodMatches(s) = {} THEN <<>>
    ELSE LET periodMatch == PeriodAt(s, Min(PeriodMatches(s)))
             fromDay == parseInt(periodMatch[1])
             fromHr == Pad2(parseInt(periodMatch[2]))
             toDay == parseInt(periodMatch[3])
             toHr == Pad2(parseInt(periodMatch[4]))
         IN << "Forecast valid day " \o ToString(fromDay) \o " from " \o fromHr
               \o ":00Z to day " \o ToString(toDay) \o " " \o toHr \o ":00Z." >>

\* The forecast's sky sentence with CLR recognised too
TafSkyPartWithClr(s) ==
    IF SkyMatches(s, 1) # {} THEN
        << Capitalize(LayerPhrase(SkyAt(s, Min(SkyMatches(s, 1))))) \o "." >>
    ELSE IF HasClearCode(s, {<<"C", "L", "R">>, <<"S", "K", "C">>, <<"C", "A", "V", "O", "K">>})
    THEN << "Sky clear." >>
    ELSE <<>>

\* First sky layer only, else SKC / CAVOK
TafSkyPart(s) ==
    IF SkyMatches(s, 1) # {} THEN
        LET skyMatch == SkyAt(s, Min(SkyMatches(s, 1)))
        IN << Capitalize(LayerPhrase(skyMatch)) \o "." >>
    ELSE IF HasClearCode(s, {<<"S", "K", "C">>, <<"C", "A", "V", "O", "K">>})
    THEN << "Sky clear." >>
    ELSE <<>>

\* /\b(TEMPO|BECMG|FM\d{6})\b/g anchored at i: the matched text, or <<>>
ChangeAt(s, i) ==
    IF ~Boundary(s, i) THEN <<>>
    ELSE IF (Lit(s, i, <<"T", "E", "M", "P", "O">>) \/ Lit(s, i, <<"B", "E", "C", "M", "G">>))
            /\ Boundary(s, i + 5)
    THEN Sub(s, i, i + 5)
    ELSE IF /\ Lit(s, i, <<"F", "M">>)
            /\ \A k \in 2..7 : At(s, i + k) \in Digits
            /\ Boundary(s, i + 8)
    THEN Sub(s, i, i + 8)
    ELSE <<>>
RECURSIVE ChangeScan(_, _)
ChangeScan(s, from) ==
    LET starts == {i \in from..Len(s) : ChangeAt(s, i) # <<>>}
    IN IF starts = {} THEN <<>>
       ELSE LET i == Min(starts)
            IN <<ToStr(ChangeAt(s, i))>> \o ChangeScan(s, i + Len(ChangeAt(s, i)))
ChangesPart(s) ==
    LET changes == ChangeScan(s, 1)
    IN IF Len(changes) = 0 THEN <<>>
       ELSE << "Contains " \o ToString(Len(changes)) \o " change group"
               \o (IF Len(changes) > 1 THEN "s" ELSE "") \o " (" \o Join(changes, ", ")
               \o ")." >>

TafParts(s) ==
    PeriodPart(s) \o WindPart(s, "Initial wind") \o VisPart(s) \o TafSkyPart(s)
    \o ChangesPart(s)

\* The blank test without the trim
TafIsBlankNoTrim(tafString) == Len(tafString) = 0

\* !tafString || tafString.trim() === ""
TafIsBlank(tafString) == Len(tafString) = 0 \/ Trim(tafString) = <<>>

translateTaf(tafString) ==
    IF TafIsBlank(tafString) THEN "No TAF available."
    ELSE LET parts == TafParts(tafString)
         IN IF Len(parts) > 0 THEN Join(parts, " ") ELSE "Unable to translate TAF."

\* The extractors a call of translateTaf runs.
TafScans(tafString) ==
    IF TafIsBlank(tafString) THEN {}
    ELSE {"period", "wind", "visibility", "sky", "changes"}

(***************************************************************************)
(* Reports under analysis: a report is written from groups, each group     *)
(* spelled in the METAR/TAF micro-language, separated by single spaces.    *)
(***************************************************************************)
Spell == [KORD |-> <<"K", "O", "R", "D">>, AUTO |-> <<"A", "U", "T", "O">>,
          SM |-> <<"S", "M">>, KT |-> <<"K", "T">>,
          FM |-> <<"F", "M">>,
          FEW |-> <<"F", "E", "W">>, SCT |-> <<"S", "C", "T">>,
          BKN |-> <<"B", "K", "N">>, OVC |-> <<"O", "V", "C">>,
          CB |-> <<"C", "B">>, TCU |-> <<"T", "C", "U">>,
          CLR |-> <<"C", "L", "R">>, SKC |-> <<"S", "K", "C">>,
          CAVOK |-> <<"C", "A", "V", "O", "K">>, NONE |-> <<>>,
          MINUS |-> <<"-">>, PLUS |-> <<"+">>, VC |-> <<"V", "C">>,
          SH |-> <<"S", "H">>, TS |-> <<"T", "S">>, FZ |-> <<"F", "Z">>,
          RA |-> <<"R", "A">>, SN |-> <<"S", "N">>, BR |-> <<"B", "R">>,
          FG |-> <<"F", "G">>, HZ |-> <<"H", "Z">>,
          TEMPO |-> <<"T", "E", "M", "P", "O">>, BECMG |-> <<"B", "E", "C", "M", "G">>]

RECURSIVE Dec(_)
Dec(n) == IF n < 10 THEN <<DigitChar[n + 1]>>
          ELSE Dec(n \div 10) \o <<DigitChar[(n % 10) + 1]>>
RECURSIVE Pad(_, _)
Pad(n, w) == IF w = 0 THEN <<>> ELSE Pad(n \div 10, w - 1) \o <<DigitChar[(n % 10) + 1]>>

GroupChars(g) ==
    CASE g.k = "lt" -> <<"M">> \o Dec(g.n) \o <<"/">> \o Dec(g.d) \o Spell.SM
      [] g.k = "frac" -> Dec(g.n) \o <<"/">> \o Dec(g.d) \o Spell.SM
      [] g.k = "whole" -> Dec(g.n) \o Spell.SM
      [] g.k = "int" -> Dec(g.n)
      [] g.k = "temp" -> (IF g.tm THEN <<"M">> ELSE <<>>) \o Pad(g.tv, 2) \o <<"/">>
                         \o (IF g.dm THEN <<"M">> ELSE <<>>) \o Pad(g.dv, 2)
      [] g.k = "layer" -> Spell[g.cover] \o Pad(g.h, 3) \o Spell[g.sfx]
      [] g.k = "wind" -> (IF g.dir < 0 THEN <<"V", "R", "B">> ELSE Pad(g.dir, 3))
                         \o Pad(g.spd, 2)
                         \o (IF g.gust < 0 THEN <<>> ELSE <<"G">> \o Pad(g.gust, 2))
                         \o Spell.KT
      [] g.k = "wx" -> Spell[g.int] \o Spell[g.mod] \o Spell[g.ph]
      [] g.k = "alt" -> <<"A">> \o Pad(g.n, 4)
      [] g.k = "period" -> Pad(g.from, 4) \o <<"/">> \o Pad(g.to, 4)
      [] g.k = "fm" -> <<"F", "M">> \o Pad(g.at, 6)
      [] g.k = "lit" -> Spell[g.w]

RECURSIVE JoinGroups(_)
JoinGroups(gs) ==
    IF Len(gs) = 0 THEN <<>>
    ELSE IF Len(gs) = 1 THEN GroupChars(gs[1])
    ELSE GroupChars(gs[1]) \o <<" ">> \o JoinGroups(Tail(gs))

SeqsUpTo(S, n) == UNION {[1..m -> S] : m \in 0..n}

Lt(n, d) == [k |-> "lt", n |-> n, d |-> d]
Frac(n, d) == [k |-> "frac", n |-> n, d |-> d]
Whole(n) == [k |-> "whole", n |-> n]
Bare(n) == [k |-> "int", n |-> n]
Temp(tm, tv, dm, dv) == [k |-> "temp", tm |-> tm, tv |-> tv, dm |-> dm, dv |-> dv]
Layer(cover, h, sfx) == [k |-> "layer", cover |-> cover, h |-> h, sfx |-> sfx]
Word(w) == [k |-> "lit", w |-> w]
\* dir < 0 is VRB, gust < 0 is no gust
Wind(dir, spd, gust) == [k |-> "wind", dir |-> dir, spd |-> spd, gust |-> gust]
\* int is MINUS, PLUS, VC or NONE; mod a modifier or NONE
Wx(int, mod, ph) == [k |-> "wx", int |-> int, mod |-> mod, ph |-> ph]
Altimeter(n) == [k |-> "alt", n |-> n]
Period(from, to) == [k |-> "period", from |-> from, to |-> to]
From(at) == [k |-> "fm", at |-> at]

(***************************************************************************)
(* The core functions applied to a report.                                 *)
(***************************************************************************)
Called(f) == f \in DOMAIN ret
Return(f, v) == ret' = [g \in DOMAIN ret \cup {f} |-> IF g = f THEN v ELSE ret[g]]

InitRest ==
    /\ ret = <<>>
    /\ scans = {}
    /\ hpc = "idle" /\ station = <<>>
    /\ metarFetch = [st |-> "none", text |-> <<>>] /\ tafFetch = [st |-> "none", text |-> <<>>]
    /\ responses = <<>> /\ coreCalls = <<>>
    /\ uiStation = "" /\ loading = FALSE /\ recent = <<>> /\ stored = "null"
    /\ inflight = <<>> /\ lastOk = "" /\ uiError = FALSE

InitReport(G) ==
    /\ groups \in SeqsUpTo(G, MaxGroups)
    /\ report = JoinGroups(groups)
    /\ InitRest

CallParseVisibility ==
    /\ ~Called("parseVisibility")
    /\ Return("parseVisibility", parseVisibility(report))
    /\ UNCHANGED <<groups, report, scans, handlerVars, uiVars>>

CallParseCeiling ==
    /\ ~Called("parseCeiling")
    /\ Return("parseCeiling", parseCeiling(report))
    /\ UNCHANGED <<groups, report, scans, handlerVars, uiVars>>

CallTranslateMetar ==
    /\ ~Called("translateMetar")
    /\ Return("translateMetar", translateMetar(report))
    /\ UNCHANGED <<groups, report, scans, handlerVars, uiVars>>

CallTranslateTaf ==
    /\ ~Called("translateTaf")
    /\ Return("translateTaf", translateTaf(report))
    /\ scans' = scans \cup TafScans(report)
    /\ UNCHANGED <<groups, report, handlerVars, uiVars>>

CallGetFlightCategory ==
    /\ ~Called("getFlightCategory")
    /\ Return("getFlightCategory", getFlightCategory(report))
    /\ UNCHANGED <<groups, report, scans, handlerVars, uiVars>>

(***************************************************************************)
(* Visibility: reports written from visibility groups, a bare number, a    *)
(* temperature group and a station word.                                   *)
(***************************************************************************)
VisGroups == {Lt(1, 4), Frac(1, 2), Frac(3, 4), Frac(1, 0), Bare(2), Whole(10),
              Whole(0), Temp(FALSE, 10, FALSE, 5), Word("KORD")}
InitVis == InitReport(VisGroups)
NextVis == CallParseVisibility
SpecVis == InitVis /\ [][NextVis]_vars

\* The number a group ends with when that number starts at a word boundary, or -1.
TrailInt(g) ==
    IF g.k = "int" THEN g.n
    ELSE IF g.k = "temp" /\ ~g.dm THEN g.dv
    ELSE -1
LtAt(gs) == {i \in 1..Len(gs) : gs[i].k = "lt"}
MixedPairAt(gs) == {i \in 1..(Len(gs) - 1) : TrailInt(gs[i]) >= 0 /\ gs[i + 1].k = "frac"}
FracGroupAt(gs) == {i \in 1..Len(gs) : gs[i].k = "frac"}
WholeGroupAt(gs) == {i \in 1..Len(gs) : gs[i].k = "whole"}
\* v is the JavaScript number a / b (not finite when b = 0).
IsRatio(v, a, b) ==
    /\ v.t = "num"
    /\ IF b = 0 THEN v.d = 0 ELSE v.d # 0 /\ v.n * b = a * v.d

\* v is what the first visibility form occurring in gs, in priority order, gives.
VisDecidedBy(v, gs) ==
    IF LtAt(gs) # {} THEN v.t = "num" /\ v.n = 0 /\ v.d = 1
    ELSE IF MixedPairAt(gs) # {} THEN
        LET i == Min(MixedPairAt(gs)) IN
        IsRatio(v, TrailInt(gs[i]) * gs[i + 1].d + gs[i + 1].n, gs[i + 1].d)
    ELSE IF FracGroupAt(gs) # {} THEN
        LET i == Min(FracGroupAt(gs)) IN IsRatio(v, gs[i].n, gs[i].d)
    ELSE IF WholeGroupAt(gs) # {} THEN
        LET i == Min(WholeGroupAt(gs)) IN IsRatio(v, gs[i].n, 1)
    ELSE v.t = "null"

\* C3: parseVisibility decides by the first form, in the order less-than
\* fraction (0), mixed number (whole + num/den), pure fraction (num/den), whole
\* number, that occurs anywhere in the report, also when a form of lower
\* priority occurs too; with no visibility form in the report the result is
\* null, never 0.
VisibilityFirstFormWins ==
    Called("parseVisibility") =>
        LET v == ret["parseVisibility"] IN
        /\ VisDecidedBy(v, groups)
        /\ (v.t = "null") <=>
               (LtAt(groups) \cup FracGroupAt(groups) \cup WholeGroupAt(groups) = {})
        /\ (groups = <<Bare(2), Frac(1, 2)>> => v.t = "num" /\ v.n = 5 /\ v.d = 2)
        /\ (groups = <<Frac(3, 4)>> => v.t = "num" /\ v.n = 3 /\ v.d = 4)
        /\ (groups = <<Whole(10)>> => v.t = "num" /\ v.n = 10 /\ v.d = 1)

\* A report where a whole-number group comes first and a less-than fraction
\* (whose "4SM" tail is a whole-number form too) later, and 0 was returned.
VisibilityLowerFormAlsoMatches ==
    /\ Called("parseVisibility")
    /\ Len(groups) = 3
    /\ groups[1] = Whole(10) /\ groups[2] = Frac(1, 2) /\ groups[3] = Lt(1, 4)
    /\ ret["parseVisibility"] = Number(0)

(***************************************************************************)
(* Ceiling: reports written from sky-layer groups of every cover, with and *)
(* without a convective-cloud suffix.                                      *)
(***************************************************************************)
CeilGroups == {Layer("BKN", 25, "NONE"), Layer("OVC", 8, "NONE"), Layer("OVC", 0, "NONE"),
               Layer("SCT", 15, "NONE"), Layer("FEW", 3, "NONE"), Layer("BKN", 4, "CB"),
               Layer("OVC", 12, "TCU"), Word("CLR"), Word("KORD")}
InitCeil == InitReport(CeilGroups)
NextCeil == CallParseCeiling
SpecCeil == InitCeil /\ [][NextCeil]_vars

\* The heights (hundreds of feet) of the BKN and OVC layer groups of gs.
CeilingHeights(gs) ==
    {gs[i].h : i \in {j \in 1..Len(gs) : gs[j].k = "layer" /\ gs[j].cover \in {"BKN", "OVC"}}}
CeilingIs(c, hs) ==
    IF hs = {} THEN c.t = "null"
    ELSE c.t = "num" /\ c.d = 1 /\ c.n = 100 * Min(hs)

\* C2: parseCeiling returns 100 times the smallest height among all the BKN and
\* OVC sky-layer groups of the report, FEW and SCT never contributing, and null
\* exactly when the report has no BKN or OVC layer group.
CeilingIsLowestBknOvcLayer ==
    Called("parseCeiling") => CeilingIs(ret["parseCeiling"], CeilingHeights(groups))

\* What does hold: the same statement over the BKN and OVC layer groups that
\* carry no CB/TCU suffix.
PlainCeilingHeights(gs) ==
    {gs[i].h : i \in {j \in 1..Len(gs) : /\ gs[j].k = "layer"
                                         /\ gs[j].cover \in {"BKN", "OVC"}
                                         /\ gs[j].sfx = "NONE"}}
CeilingIsLowestPlainLayer ==
    Called("parseCeiling") => CeilingIs(ret["parseCeiling"], PlainCeilingHeights(groups))

(***************************************************************************)
(* Flight category: reports with ceilings and visibilities on both sides   *)
(* of every threshold.                                                     *)
(***************************************************************************)
CatGroups == {Layer("BKN", 4, "NONE"), Layer("OVC", 5, "NONE"), Layer("BKN", 9, "NONE"),
              Layer("OVC", 10, "NONE"), Layer("BKN", 30, "NONE"), Layer("OVC", 31, "NONE"),
              Layer("SCT", 2, "NONE"),
              Frac(3, 4), Whole(1), Whole(2), Whole(3), Whole(5), Whole(6)}
InitCat == InitReport(CatGroups)
NextCat == CallGetFlightCategory
SpecCat == InitCat /\ [][NextCat]_vars

CategoryRank == [LIFR |-> 0, IFR |-> 1, MVFR |-> 2, VFR |-> 3]
\* The category a ceiling alone, and a visibility alone, would give.
CeilingRank(c) ==
    IF c.t = "null" THEN 3
    ELSE IF c.n < 500 * c.d THEN 0
    ELSE IF c.n < 1000 * c.d THEN 1
    ELSE IF c.n <= 3000 * c.d THEN 2
    ELSE 3
VisibilityRank(v) ==
    IF v.t = "null" THEN 3
    ELSE IF v.n < 1 * v.d THEN 0
    ELSE IF v.n < 3 * v.d THEN 1
    ELSE IF v.n <= 5 * v.d THEN 2
    ELSE 3

\* C1: the category is that of the first satisfied rule LIFR, IFR, MVFR, VFR,
\* that is the worse of the categories of the two readings; an absent reading
\* never worsens it, both absent give VFR, a ceiling of exactly 3000 or a
\* visibility of exactly 5 is never VFR, and the readings returned are those
\* of the report.
CategoryIsWorseOfReadings ==
    Called("getFlightCategory") =>
        LET r == ret["getFlightCategory"]
            c == r.ceilingFt
            v == r.visibilitySM
            rc == CeilingRank(c)
            rv == VisibilityRank(v)
        IN /\ CeilingIs(c, CeilingHeights(groups))
           /\ VisDecidedBy(v, groups)
           /\ CategoryRank[r.category] = IF rc < rv THEN rc ELSE rv
           /\ (c.t = "null" => CategoryRank[r.category] = rv)
           /\ (v.t = "null" => CategoryRank[r.category] = rc)
           /\ (c.t = "null" /\ v.t = "null" => r.category = "VFR")
           /\ ((c.t = "num" /\ c.n = 3000) \/ (v.t = "num" /\ v.n = 5 /\ v.d = 1)
                  => r.category # "VFR")
           /\ (groups = <<Layer("BKN", 4, "NONE"), Whole(6)>> => r.category = "LIFR")
           /\ (groups = <<Whole(2)>> => r.category = "IFR")
           /\ (groups = <<Layer("BKN", 30, "NONE")>> => r.category = "MVFR")

\* A ceiling of exactly 3000 ft with a visibility above 5 SM was classified MVFR.
CategoryAtMvfrBoundary ==
    /\ Called("getFlightCategory")
    /\ groups = <<Layer("BKN", 30, "NONE"), Whole(6)>>
    /\ ret["getFlightCategory"].category = "MVFR"
    /\ ret["getFlightCategory"].ceilingFt = Number(3000)

(***************************************************************************)
(* METAR translation: reports with one group per extractor in every order, *)
(* and short reports with repeated and unrecognised groups.                *)
(***************************************************************************)
SixGroups == {Wind(280, 12, -1), Whole(10), Wx("NONE", "NONE", "BR"),
              Layer("FEW", 15, "NONE"), Temp(FALSE, 5, TRUE, 1), Altimeter(2992)}
MetarGroups == SixGroups \cup {Wx("MINUS", "NONE", "RA"), Word("CLR"), Word("KORD")}
Orderings(S) ==
    {p \in [1..Cardinality(S) -> S] : \A i, j \in 1..Cardinality(S) : p[i] = p[j] => i = j}
InitMetar ==
    /\ groups \in SeqsUpTo(MetarGroups, MaxGroups) \cup Orderings(SixGroups)
    /\ report = JoinGroups(groups)
    /\ InitRest
NextMetar == CallTranslateMetar
SpecMetar == InitMetar /\ [][NextMetar]_vars

\* The extractor a group is for.
KindOf(g) ==
    CASE g.k = "wind" -> "wind"
      [] g.k \in {"lt", "frac", "whole"} -> "visibility"
      [] g.k = "wx" -> "weather"
      [] g.k = "layer" -> "sky"
      [] g.k = "lit" /\ g.w \in {"CLR", "SKC", "CAVOK"} -> "sky"
      [] g.k = "temp" -> "temperature"
      [] g.k = "alt" -> "altimeter"
      [] OTHER -> "none"
KindsIn(gs) == {KindOf(gs[i]) : i \in 1..Len(gs)} \ {"none"}
MetarOrder == <<"wind", "visibility", "weather", "sky", "temperature", "altimeter">>
\* What the extractor of kind k yields for the text s: no sentence or one.
Yield(k, s) ==
    CASE k = "wind" -> WindPart(s, "Wind")
      [] k = "visibility" -> VisPart(s)
      [] k = "weather" -> WxPart(s)
      [] k = "sky" -> SkyPart(s)
      [] k = "temperature" -> TempPart(s)
      [] k = "altimeter" -> AltPart(s)
RECURSIVE SpaceJoined(_)
SpaceJoined(ss) ==
    IF Len(ss) = 0 THEN ""
    ELSE IF Len(ss) = 1 THEN ss[1]
    ELSE ss[1] \o " " \o SpaceJoined(Tail(ss))
RECURSIVE YieldsInOrder(_, _, _)
YieldsInOrder(order, present, s) ==
    IF Len(order) = 0 THEN <<>>
    ELSE (IF order[1] \in present THEN Yield(order[1], s) ELSE <<>>)
         \o YieldsInOrder(Tail(order), present, s)

\* C4: translateMetar returns, joined by single spaces, one sentence for each
\* extractor whose group occurs in the report, in the order wind, visibility,
\* weather, sky, temperature, altimeter whatever the order of the groups; it
\* returns "Unable to translate METAR." exactly when no extractor has a group,
\* and never the empty string.
MetarSentencesInFixedOrder ==
    Called("translateMetar") =>
        LET text == ret["translateMetar"]
            present == KindsIn(groups)
        IN /\ \A k \in {"wind", "visibility", "weather", "sky", "temperature", "altimeter"} :
                  Len(Yield(k, report)) = IF k \in present THEN 1 ELSE 0
           /\ text = IF present = {} THEN "Unable to translate METAR."
                     ELSE SpaceJoined(YieldsInOrder(MetarOrder, present, report))
           /\ text # ""
           /\ (text = "Unable to translate METAR.") <=> (present = {})
           /\ (groups = <<Altimeter(2992), Whole(10)>>
                  => text = "Visibility 10 statute miles. Altimeter 29.92 inHg.")

\* The six groups in the reverse of the output order, translated in the fixed order.
MetarReversedGroups ==
    /\ Called("translateMetar")
    /\ groups = <<Altimeter(2992), Temp(FALSE, 5, TRUE, 1), Layer("FEW", 15, "NONE"),
                  Wx("NONE", "NONE", "BR"), Whole(10), Wind(280, 12, -1)>>
    /\ ret["translateMetar"] =
         "Wind 280° at 12 knots. Visibility 10 statute miles. Mist. "
         \o "Few clouds at 1,500 feet. Temperature 5°C, dewpoint -1°C. Altimeter 29.92 inHg."

(***************************************************************************)
(* Weather phenomena: reports of weather groups of every intensity.        *)
(***************************************************************************)
WxGroups == {Wx("MINUS", "NONE", "RA"), Wx("PLUS", "NONE", "SN"), Wx("VC", "NONE", "TS"),
             Wx("NONE", "NONE", "BR"), Wx("MINUS", "SH", "RA"), Wx("NONE", "FZ", "FG"),
             Word("KORD")}
InitWx == InitReport(WxGroups)
NextWx == CallTranslateMetar
SpecWx == InitWx /\ [][NextWx]_vars

IntensityWord == [MINUS |-> "light ", PLUS |-> "heavy ", VC |-> "in vicinity ", NONE |-> ""]
IntensityWordCap == [MINUS |-> "Light ", PLUS |-> "Heavy ", VC |-> "In vicinity "]
PhenomenonWord == [RA |-> "rain", SN |-> "snow", TS |-> "thunderstorm", BR |-> "mist",
                   FG |-> "fog"]
PhenomenonWordCap == [RA |-> "Rain", SN |-> "Snow", TS |-> "Thunderstorm", BR |-> "Mist",
                      FG |-> "Fog"]
WxWords(g, first) ==
    IF ~first THEN IntensityWord[g.int] \o PhenomenonWord[g.ph]
    ELSE IF g.int = "NONE" THEN PhenomenonWordCap[g.ph]
    ELSE IntensityWordCap[g.int] \o PhenomenonWord[g.ph]
RECURSIVE CommaJoined(_)
CommaJoined(ss) ==
    IF Len(ss) = 0 THEN ""
    ELSE IF Len(ss) = 1 THEN ss[1]
    ELSE ss[1] \o ", " \o CommaJoined(Tail(ss))
IsWx(g) == g.k = "wx"
WxSentence(gs) ==
    LET ws == SelectSeq(gs, IsWx)
    IN IF Len(ws) = 0 THEN "Unable to translate METAR."
       ELSE CommaJoined([i \in 1..Len(ws) |-> WxWords(ws[i], i = 1)]) \o "."

\* C7: every weather group [intensity][modifier]<code> is rendered as the phrase
\* of its code prefixed by the phrase of its intensity: "-" light, "+" heavy,
\* "VC" in vicinity, none no prefix.
WxIntensityRendered ==
    Called("translateMetar") => ret["translateMetar"] = WxSentence(groups)

\* What does hold: the intensity is rendered for VC and for no intensity.
HasSign(g) == g.k = "wx" /\ g.int \in {"MINUS", "PLUS"}
WxIntensityRenderedWithoutSign ==
    Called("translateMetar") /\ Len(SelectSeq(groups, HasSign)) = 0
        => ret["translateMetar"] = WxSentence(groups)

(***************************************************************************)
(* Sky conditions: the same reports of layer groups and clear-sky codes    *)
(* given to translateMetar and to translateTaf.                            *)
(***************************************************************************)
SkyGroups == {Layer("FEW", 15, "NONE"), Layer("BKN", 25, "CB"), Layer("OVC", 8, "NONE"),
              Word("CLR"), Word("SKC"), Word("CAVOK"), Word("KORD")}
InitSky == InitReport(SkyGroups)
NextSky == CallTranslateMetar \/ CallTranslateTaf
SpecSky == InitSky /\ [][NextSky]_vars

LayerWords(g, first) ==
    CASE g = Layer("FEW", 15, "NONE") ->
             IF first THEN "Few clouds at 1,500 feet" ELSE "few clouds at 1,500 feet"
      [] g = Layer("BKN", 25, "CB") ->
             IF first THEN "Broken clouds at 2,500 feet with cumulonimbus"
             ELSE "broken clouds at 2,500 feet with cumulonimbus"
      [] g = Layer("OVC", 8, "NONE") ->
             IF first THEN "Overcast at 800 feet" ELSE "overcast at 800 feet"
IsLayer(g) == g.k = "layer"
IsClearCode(g) == g.k = "lit" /\ g.w \in {"CLR", "SKC", "CAVOK"}
IsTafClearCode(g) == g.k = "lit" /\ g.w \in {"SKC", "CAVOK"}
LayersOf(gs) == SelectSeq(gs, IsLayer)
HasLayer(gs) == Len(SelectSeq(gs, IsLayer)) > 0
HasClearCodeGroup(gs) == Len(SelectSeq(gs, IsClearCode)) > 0
HasTafClearCodeGroup(gs) == Len(SelectSeq(gs, IsTafClearCode)) > 0
\* Every layer group of gs, in order, in one phrase.
AllLayerWords(gs) ==
    CommaJoined([i \in 1..Len(LayersOf(gs)) |-> LayerWords(LayersOf(gs)[i], i = 1)])

\* C6: "sky clear" is in the sky sentence of translateMetar only if the report
\* has no layer group and has CLR, SKC or CAVOK; a report with a layer group
\* never gets "sky clear", also when it has CLR, SKC or CAVOK too.
MetarSkyClearOnlyWithoutLayers ==
    Called("translateMetar") =>
        ret["translateMetar"] =
            IF HasLayer(groups) THEN AllLayerWords(groups) \o "."
            ELSE IF HasClearCodeGroup(groups) THEN "Sky clear."
            ELSE "Unable to translate METAR."

\* C8: translateTaf renders only the earliest layer group, "Sky clear." when
\* there is no layer group and the forecast has SKC or CAVOK, and no sky
\* sentence when its only clear-sky code is CLR; translateMetar on the same
\* text renders every layer and does recognize CLR.
TafFirstLayerOnly ==
    /\ Called("translateTaf") =>
           ret["translateTaf"] =
               IF Len(groups) = 0 THEN "No TAF available."
               ELSE IF HasLayer(groups) THEN LayerWords(LayersOf(groups)[1], TRUE) \o "."
               ELSE IF HasTafClearCodeGroup(groups) THEN "Sky clear."
               ELSE "Unable to translate TAF."
    /\ Called("translateMetar") =>
           /\ HasLayer(groups) =>
                  ret["translateMetar"] \in {AllLayerWords(groups) \o ".",
                                             AllLayerWords(groups) \o ", sky clear."}
           /\ ~HasLayer(groups) /\ HasClearCodeGroup(groups) =>
                  ret["translateMetar"] = "Sky clear."

\* Two layers on the same text: the forecast renders the first, the report both;
TafAndMetarOnTwoLayers ==
    /\ Called("translateTaf") /\ Called("translateMetar")
    /\ groups = <<Layer("OVC", 8, "NONE"), Layer("FEW", 15, "NONE")>>
    /\ ret["translateTaf"] = "Overcast at 800 feet."
    /\ ret["translateMetar"] = "Overcast at 800 feet, few clouds at 1,500 feet."

(***************************************************************************)
(* TAF translation: forecasts of groups translateTaf extracts and groups   *)
(* it does not, with and without surrounding whitespace, and blank texts.  *)
(***************************************************************************)
TafGroups == {Period(2818, 2918), Wind(280, 12, -1), Whole(6), Layer("BKN", 25, "NONE"),
              Word("SKC"), Word("CLR"), Word("TEMPO"), From(281800), Word("KORD"),
              Temp(FALSE, 5, TRUE, 1)}
Paddings == {<<>>, <<" ">>, <<"\n", "\t">>}
InitTaf ==
    /\ groups \in SeqsUpTo(TafGroups, MaxGroups)
    /\ \E pad \in Paddings : report = pad \o JoinGroups(groups) \o pad
    /\ InitRest
NextTaf == CallTranslateTaf
SpecTaf == InitTaf /\ [][NextTaf]_vars

IsBlankText(s) == \A i \in 1..Len(s) : s[i] \in SpaceChars
IsTafField(g) ==
    \/ g.k \in {"period", "wind", "lt", "frac", "whole", "layer", "fm"}
    \/ g.k = "lit" /\ g.w \in {"SKC", "CAVOK", "TEMPO", "BECMG"}

\* C5: translateTaf returns "No TAF available." exactly when its input is empty
\* or only whitespace, and then runs no extractor; a non-blank input with no
\* extractable field gives "Unable to translate TAF.".
TafBlankIsNoTaf ==
    Called("translateTaf") =>
        /\ (ret["translateTaf"] = "No TAF available.") <=> IsBlankText(report)
        /\ IsBlankText(report) => scans = {}
        /\ ~IsBlankText(report) => scans # {}
        /\ (~IsBlankText(report) /\ Len(SelectSeq(groups, IsTafField)) = 0)
               <=> ret["translateTaf"] = "Unable to translate TAF."

\* A whitespace-only forecast was answered without running an extractor.
TafWhitespaceOnly ==
    /\ Called("translateTaf")
    /\ report = <<"\n", "\t", "\n", "\t">>
    /\ ret["translateTaf"] = "No TAF available."
    /\ scans = {}

(***************************************************************************)
(* app.get("/api/weather"): one request, from its arrival to its response. *)
(* The two upstream fetches are in flight together (Promise.all) and       *)
(* settle in either order, each with an ok response, a non-ok response or  *)
(* a thrown error.                                                         *)
(***************************************************************************)
Absent == <<"undefined">>
Stations == {Absent, <<>>, <<"K", "O">>, <<"O", "R", "D">>, <<"K", "O", "R", "D">>,
             <<"k", "o", "r", "d">>, <<"K", "1", "R", "D">>, <<"K", "O", "R", "D", "X">>,
             <<"K", "O", "R", "\n">>}
\* The bodies the upstream may send.
MetarTexts == {<<>>, <<"\n">>,
               JoinGroups(<<Word("KORD"), Wind(280, 12, -1), Frac(1, 2),
                            Layer("BKN", 4, "NONE")>>) \o <<"\n">>,
               <<" ">> \o JoinGroups(<<Whole(10), Word("CLR")>>) \o <<"\n", "\n">>}
TafTexts == {<<>>, <<" ", "\n">>,
             JoinGroups(<<Period(2818, 2918), Word("SKC")>>) \o <<"\n">>}
NoFetch == [st |-> "none", text |-> <<>>]
Pending == [st |-> "pending", text |-> <<>>]

\* The station test accepting any string of 3 to 4 characters
IsInvalidStationAnyChars(q) == q = Absent \/ Len(q) \notin {3, 4}

\* !station || !/^[a-zA-Z]{3,4}$/.test(station)
IsInvalidStation(q) ==
    \/ q = Absent
    \/ Len(q) = 0
    \/ ~(Len(q) \in {3, 4} /\ \A i \in 1..Len(q) : q[i] \in UpperLetters \cup LowerLetters)
toUpperCase(q) == [i \in 1..Len(q) |-> IF q[i] \in LowerLetters THEN ToUpperCase[q[i]] ELSE q[i]]

Send(status, body) == responses' = Append(responses, [status |-> status, body |-> body])

InitHandler ==
    /\ groups = <<>> /\ report = <<>> /\ ret = <<>> /\ scans = {}
    /\ hpc = "received"
    /\ station \in Stations
    /\ metarFetch = NoFetch /\ tafFetch = NoFetch
    /\ responses = <<>> /\ coreCalls = <<>>
    /\ uiStation = "" /\ loading = FALSE /\ recent = <<>> /\ stored = "null"
    /\ inflight = <<>> /\ lastOk = "" /\ uiError = FALSE

\* Lines 222-237: the validation, then both fetches are started.
Validate ==
    /\ hpc = "received"
    /\ IF IsInvalidStation(station)
       THEN /\ Send(400, "Invalid station.")
            /\ hpc' = "done"
            /\ UNCHANGED <<metarFetch, tafFetch>>
       ELSE /\ hpc' = "fetching"
            /\ metarFetch' = Pending
            /\ tafFetch' = Pending
            /\ UNCHANGED responses
    /\ UNCHANGED <<station, coreCalls, coreVars, uiVars>>

\* An upstream fetch settles.
MetarFetchSettles ==
    /\ metarFetch.st = "pending"
    /\ \E st \in {"ok", "notok", "threw"} : \E text \in MetarTexts :
           metarFetch' = [st |-> st, text |-> IF st = "ok" THEN text ELSE <<>>]
    /\ UNCHANGED <<hpc, station, tafFetch, responses, coreCalls, coreVars, uiVars>>
TafFetchSettles ==
    /\ tafFetch.st = "pending"
    /\ \E st \in {"ok", "notok", "threw"} : \E text \in TafTexts :
           tafFetch' = [st |-> st, text |-> IF st = "ok" THEN text ELSE <<>>]
    /\ UNCHANGED <<hpc, station, metarFetch, responses, coreCalls, coreVars, uiVars>>

\* Promise.all rejects as soon as one fetch has thrown: the catch block.
FetchThrew ==
    /\ hpc = "fetching"
    /\ metarFetch.st = "threw" \/ tafFetch.st = "threw"
    /\ Send(502, "Failed to fetch weather data from AviationWeather.gov.")
    /\ hpc' = "done"
    /\ UNCHANGED <<station, metarFetch, tafFetch, coreCalls, coreVars, uiVars>>

\* Promise.all is fulfilled, and a response is not ok (lines 239-243).
FetchNotOk ==
    /\ hpc = "fetching"
    /\ metarFetch.st \in {"ok", "notok"} /\ tafFetch.st \in {"ok", "notok"}
    /\ metarFetch.st = "notok" \/ tafFetch.st = "notok"
    /\ Send(404, "No data found for station.")
    /\ hpc' = "done"
    /\ UNCHANGED <<station, metarFetch, tafFetch, coreCalls, coreVars, uiVars>>

\* Both responses are ok: the bodies are awaited (lines 245-248).
FetchOk ==
    /\ hpc = "fetching"
    /\ metarFetch.st = "ok" /\ tafFetch.st = "ok"
    /\ hpc' = "reading"
    /\ UNCHANGED <<station, metarFetch, tafFetch, responses, coreCalls, coreVars, uiVars>>

\* Reading a body throws: the catch block.
BodyThrew ==
    /\ hpc = "reading"
    /\ Send(502, "Failed to fetch weather data from AviationWeather.gov.")
    /\ hpc' = "done"
    /\ UNCHANGED <<station, metarFetch, tafFetch, coreCalls, coreVars, uiVars>>

\* Lines 250-264: the texts are trimmed, the core is called, the answer is sent.
Respond ==
    /\ hpc = "reading"
    /\ LET metarTrimmed == Trim(metarFetch.text)
           tafTrimmed == Trim(tafFetch.text)
           cat == getFlightCategory(metarTrimmed)
           translatedMetar == translateMetar(metarTrimmed)
           translatedTaf == translateTaf(tafTrimmed)
       IN /\ coreCalls' = coreCalls \o <<[fn |-> "getFlightCategory", arg |-> metarTrimmed],
                                         [fn |-> "translateMetar", arg |-> metarTrimmed],
                                         [fn |-> "translateTaf", arg |-> tafTrimmed]>>
          /\ Send(200, [station |-> toUpperCase(station),
                        metar |-> metarTrimmed,
                        taf |-> tafTrimmed,
                        category |-> cat.category,
                        visibilitySM |-> cat.visibilitySM,
                        ceilingFt |-> cat.ceilingFt,
                        translatedMetar |-> translatedMetar,
                        translatedTaf |-> translatedTaf])
    /\ hpc' = "done"
    /\ UNCHANGED <<station, metarFetch, tafFetch, coreVars, uiVars>>

NextHandler ==
    \/ Validate
    \/ MetarFetchSettles
    \/ TafFetchSettles
    \/ FetchThrew
    \/ FetchNotOk
    \/ FetchOk
    \/ BodyThrew
    \/ Respond
Spec == InitHandler /\ [][NextHandler]_vars

\* t is s without its leading and trailing whitespace.
IsTrimOf(t, s) ==
    /\ \E i \in 1..(Len(s) + 1) : \E j \in 0..Len(s) :
           /\ t = SubSeq(s, i, j)
           /\ \A k \in (1..(i - 1)) \cup ((j + 1)..Len(s)) : s[k] \in SpaceChars
    /\ Len(t) > 0 => t[1] \notin SpaceChars /\ t[Len(t)] \notin SpaceChars
IsStationCode(q) ==
    /\ q # Absent
    /\ Len(q) \in {3, 4}
    /\ \A i \in 1..Len(q) : q[i] \in UpperLetters \cup LowerLetters
FetchesStarted == metarFetch.st # "none" \/ tafFetch.st # "none"

\* C9: a request gets exactly one response; a station that is missing or not 3
\* to 4 letters gets 400 with no upstream fetch and no call of the core; the
\* core is called only after both fetches succeeded, and on the trimmed texts;
\* a fetch that threw gives 502, else a non-ok response gives 404.
HandlerRespondsOnce ==
    /\ Len(responses) <= 1
    /\ (hpc = "done") <=> (Len(responses) = 1)
    /\ hpc # "done" => ENABLED NextHandler
    /\ ~IsStationCode(station) =>
           /\ ~FetchesStarted
           /\ coreCalls = <<>>
           /\ hpc = "done" => responses[1].status = 400
    /\ IsStationCode(station) /\ hpc = "done" => responses[1].status # 400
    /\ coreCalls # <<>> =>
           /\ metarFetch.st = "ok" /\ tafFetch.st = "ok"
           /\ \A i \in 1..Len(coreCalls) :
                  IsTrimOf(coreCalls[i].arg,
                           IF coreCalls[i].fn = "translateTaf" THEN tafFetch.text
                           ELSE metarFetch.text)
           /\ hpc = "done" /\ responses[1].status = 200
    /\ hpc = "done" /\ IsStationCode(station) =>
           /\ responses[1].status = 502 =>
                  \/ metarFetch.st = "threw" \/ tafFetch.st = "threw"
                  \/ metarFetch.st = "ok" /\ tafFetch.st = "ok"
           /\ responses[1].status = 404 =>
                  /\ metarFetch.st = "notok" \/ tafFetch.st = "notok"
                  /\ metarFetch.st # "threw" /\ tafFetch.st # "threw"
           /\ responses[1].status = 200 => Len(coreCalls) = 3
           /\ responses[1].status \in {200, 404, 502}

\* A lower-case station answered 200 from untrimmed upstream texts.
HandlerAnswered ==
    /\ hpc = "done"
    /\ station = <<"k", "o", "r", "d">>
    /\ responses[1].status = 200
    /\ responses[1].body.station = <<"K", "O", "R", "D">>
    /\ responses[1].body.category = "LIFR"
    /\ metarFetch.text # responses[1].body.metar
    /\ responses[1].body.translatedTaf = "No TAF available."

(***************************************************************************)
(* The web UI (App.jsx): the station input, the triggers of a search, the  *)
(* response of the server, and the recent-searches list with its copy in   *)
(* localStorage.  fetchWeather is asynchronous: what it does after its     *)
(* await runs later, with the `recent` of the render that called it.       *)
(***************************************************************************)
MAX_RECENT == 6
\* What the user may type into the input.
Typed == {"", "kord", "KSFO", "k1"}
TypedUpper == [v \in Typed |->
                 CASE v = "kord" -> "KORD"
                   [] v = "k1" -> "K1"
                   [] OTHER -> v]
\* The codes the server answers with a 200 (3 to 4 letters).
ServedCodes == {"KORD", "KSFO", "KJFK", "KLAX", "KSEA", "KDEN", "KATL"}
\* A list an earlier session saved.
SavedList == <<"KJFK", "KLAX", "KSEA", "KDEN", "KATL", "KORD">>

\* JSON.stringify of a list of codes
RECURSIVE QuotedJoined(_)
QuotedJoined(list) ==
    IF Len(list) = 0 THEN ""
    ELSE IF Len(list) = 1 THEN "\"" \o list[1] \o "\""
    ELSE "\"" \o list[1] \o "\"," \o QuotedJoined(Tail(list))
Stringify(list) == "[" \o QuotedJoined(list) \o "]"

\* JSON.parse(localStorage.getItem(STORAGE_KEY)) ?? [] ; "null" is the missing key
loadRecent(item) ==
    IF item = "null" THEN <<>>
    ELSE CHOOSE list \in {<<>>, SavedList} : Stringify(list) = item

\* The update without the filter
UpdatedUnfiltered(code, list) ==
    LET all == <<code>> \o list
    IN SubSeq(all, 1, IF Len(all) < MAX_RECENT THEN Len(all) ELSE MAX_RECENT)

\* [code, ...list.filter((s) => s !== code)].slice(0, MAX_RECENT)
Updated(code, list) ==
    LET keep(c) == c # code
        all == <<code>> \o SelectSeq(list, keep)
    IN SubSeq(all, 1, IF Len(all) < MAX_RECENT THEN Len(all) ELSE MAX_RECENT)

InitUI ==
    /\ groups = <<>> /\ report = <<>> /\ ret = <<>> /\ scans = {}
    /\ hpc = "idle" /\ station = <<>>
    /\ metarFetch = NoFetch /\ tafFetch = NoFetch
    /\ responses = <<>> /\ coreCalls = <<>>
    /\ uiStation = ""
    /\ loading = FALSE
    /\ stored \in {"null", Stringify(SavedList)}
    /\ recent = loadRecent(stored)
    /\ inflight = <<>>
    /\ lastOk = ""
    /\ uiError = FALSE

\* fetchWeather(code), up to its await
StartFetch(code) ==
    IF code = "" THEN UNCHANGED <<loading, uiError, inflight>>
    ELSE /\ loading' = TRUE
         /\ uiError' = FALSE
         /\ inflight' = Append(inflight, [code |-> code, recent |-> recent])

\* onChange of the input
TypeStation ==
    /\ \E v \in Typed : uiStation' = TypedUpper[v]
    /\ UNCHANGED <<loading, recent, stored, inflight, lastOk, uiError, coreVars, handlerVars>>

\* handleKeyDown with the Enter key
PressEnter ==
    /\ uiStation # "" /\ ~loading
    /\ StartFetch(uiStation)
    /\ UNCHANGED <<uiStation, recent, stored, lastOk, coreVars, handlerVars>>

\* onClick of the Fetch button, disabled when !station || loading
ClickFetch ==
    /\ ~(uiStation = "" \/ loading)
    /\ StartFetch(uiStation)
    /\ UNCHANGED <<uiStation, recent, stored, lastOk, coreVars, handlerVars>>

\* onClick of a recent chip, disabled when loading
ClickChip ==
    /\ ~loading
    /\ \E i \in 1..Len(recent) :
           /\ uiStation' = recent[i]
           /\ StartFetch(recent[i])
    /\ UNCHANGED <<recent, stored, lastOk, coreVars, handlerVars>>

\* fetchWeather after its await: a 200 answer (setWeather, addToRecent)
FetchSucceeds ==
    /\ \E i \in 1..Len(inflight) :
           LET call == inflight[i]
               updated == Updated(call.code, call.recent)
           IN /\ call.code \in ServedCodes
              /\ recent' = updated
              /\ stored' = Stringify(updated)
              /\ lastOk' = call.code
              /\ inflight' = SubSeq(inflight, 1, i - 1) \o SubSeq(inflight, i + 1, Len(inflight))
    /\ loading' = FALSE
    /\ UNCHANGED <<uiStation, uiError, coreVars, handlerVars>>

\* fetchWeather after its await: an error answer, or fetch threw (setError)
FetchFails ==
    /\ \E i \in 1..Len(inflight) :
           inflight' = SubSeq(inflight, 1, i - 1) \o SubSeq(inflight, i + 1, Len(inflight))
    /\ uiError' = TRUE
    /\ loading' = FALSE
    /\ UNCHANGED <<uiStation, recent, stored, lastOk, coreVars, handlerVars>>

NextUI ==
    \/ TypeStation
    \/ PressEnter
    \/ ClickFetch
    \/ ClickChip
    \/ FetchSucceeds
    \/ FetchFails
SpecUI == InitUI /\ [][NextUI]_vars

RecentIsWellFormed ==
    /\ Len(recent) <= 6
    /\ \A i, j \in 1..Len(recent) : recent[i] = recent[j] => i = j
    /\ lastOk # "" => Len(recent) > 0 /\ recent[1] = lastOk
    /\ lastOk # "" => stored = Stringify(recent)
    /\ Len(inflight) <= 1
    /\ loading <=> Len(inflight) = 1

\* C10: after any sequence of searches the recent list holds at most 6 codes,
\* none twice, the most recently fetched one first; the saved copy equals the
\* list after every successful fetch; at most one fetch is in flight, every
\* trigger being blocked while loading; a failed fetch leaves the list unchanged.
RecentSearchesKept ==
    /\ []RecentIsWellFormed
    /\ [][/\ (Len(inflight') < Len(inflight) /\ uiError')
              => recent' = recent /\ stored' = stored
          /\ (Len(inflight') < Len(inflight) /\ lastOk' # lastOk)
              => recent'[1] = lastOk' /\ stored' = Stringify(recent')
          /\ Len(inflight') > Len(inflight) => ~loading /\ recent' = recent]_vars

\* A seventh code was fetched into a full list: the oldest code fell out.
RecentOverflowed ==
    /\ recent = <<"KSFO", "KJFK", "KLAX", "KSEA", "KDEN", "KATL">>
    /\ stored = Stringify(recent)
    /\ lastOk = "KSFO"
    /\ ~loading

=============================================================================
